---------------------------- MODULE Spec2Model ----------------------------
(***************************************************************************)
(* Model of xspline's recursive B-spline evaluators (core.py):             *)
(* bspline_domain, bspline_fun, bspline_dfun, bspline_ifun and the XSpline *)
(* facade.  Real numbers are exact rationals <<n, d>> in lowest terms with *)
(* d > 0; -inf and +inf are <<-1, 0>> and <<1, 0>>.  Python's 0-based      *)
(* knots[i] is knots[i + 1] here.                                          *)
(***************************************************************************)
EXTENDS Integers, Sequences, FiniteSets, TLC

(* ------------------------------ bounds --------------------------------- *)
\* knots are distinct integers in 0..MaxKnot
MaxKnot == 3
\* degrees 0..MaxDegree
MaxDegree == 2
\* evaluation points are the multiples of 1/XDen from one unit left of the
\* knots to one unit right of them
XDen == 2
\* differentiation orders 0..MaxDegree + ExtraOrder
ExtraOrder == 1
\* raw knot lists handed to the XSpline constructor have length 0..MaxRawLen
MaxRawLen == 4

(* --------------------------- exact rationals --------------------------- *)
Abs(n) == IF n < 0 THEN -n ELSE n

RECURSIVE GCD(_, _)
GCD(m, n) == IF n = 0 THEN m ELSE GCD(n, m % n)

Norm(n, d) ==
    LET s == IF d < 0 THEN -1 ELSE 1
        g == GCD(Abs(n), Abs(d))
    IN  <<(s * n) \div g, (s * d) \div g>>

Rat(n) == <<n, 1>>
Zero == <<0, 1>>
One == <<1, 1>>
NegInf == <<-1, 0>>
PosInf == <<1, 0>>
IsInf(p) == p[2] = 0

\* sums over the least common denominator and products with the common
\* factors cancelled first, to keep the intermediate integers small
RAdd(p, q) ==
    LET g == GCD(p[2], q[2])
    IN  Norm(p[1] * (q[2] \div g) + q[1] * (p[2] \div g), p[2] * (q[2] \div g))
RSub(p, q) ==
    LET g == GCD(p[2], q[2])
    IN  Norm(p[1] * (q[2] \div g) - q[1] * (p[2] \div g), p[2] * (q[2] \div g))
RMul(p, q) ==
    LET g1 == GCD(Abs(p[1]), q[2])
        g2 == GCD(Abs(q[1]), p[2])
    IN  Norm((p[1] \div g1) * (q[1] \div g2), (p[2] \div g2) * (q[2] \div g1))
RDiv(p, q) == RMul(p, Norm(q[2], q[1]))
RNeg(p) == <<-p[1], p[2]>>
\* comparisons, also against the infinities
RLt(p, q) == IF IsInf(p) /\ IsInf(q) THEN p[1] < q[1]
             ELSE p[1] * q[2] < q[1] * p[2]
RLe(p, q) == p = q \/ RLt(p, q)
RMax(p, q) == IF RLt(p, q) THEN q ELSE p
RMin(p, q) == IF RLt(p, q) THEN p ELSE q

\* TRUE once v and w have been computed: Python evaluates the operands of an
\* expression, its calls included, before it combines them
Evaluated(v, w) == v = v /\ w = w

RECURSIVE RPow(_, _)
RPow(p, k) == IF k = 0 THEN One ELSE RMul(p, RPow(p, k - 1))

RECURSIVE Factorial(_)
Factorial(k) == IF k = 0 THEN 1 ELSE k * Factorial(k - 1)

(* ------------------- utils: the primitives core.py calls --------------- *)
\* indicator of the interval b, with each end closed or open
indicator_f(x, b, l_close, r_close) ==
    LET lb == IF l_close THEN RLe(b[1], x) ELSE RLt(b[1], x)
        rb == IF r_close THEN RLe(x, b[2]) ELSE RLt(x, b[2])
    IN  IF lb /\ rb THEN One ELSE Zero

\* linear ramp over b that is 0 at b's left end and 1 at its right end
linear_lf(x, b) == RDiv(RSub(x, b[1]), RSub(b[2], b[1]))

\* linear ramp over b that is 1 at b's left end and 0 at its right end
linear_rf(x, b) == RDiv(RSub(x, b[2]), RSub(b[1], b[2]))

\* order-fold repeated integral, from a to x, of the indicator of b
Clamp(t, b) == RMin(RMax(t, b[1]), b[2])
indicator_if(a, x, order, b) ==
    RDiv(RSub(RPow(RSub(x, Clamp(a, b)), order),
              RPow(RSub(x, Clamp(x, b)), order)),
         Rat(Factorial(order)))

(* ----------------------------- core.py --------------------------------- *)
NumIntervals(knots) == Len(knots) - 1
NumSplines(knots, degree) == NumIntervals(knots) + degree
\* idx == -1 names the last basis
ResolveIdx(knots, degree, idx) ==
    IF idx = -1 THEN NumSplines(knots, degree) - 1 ELSE idx

IMax(m, n) == IF m < n THEN n ELSE m
IMin(m, n) == IF m < n THEN m ELSE n

\* mutant: the right end is relaxed for idx == num_splines instead of the
\* last basis, num_splines - 1
bspline_domain_off_by_one(knots, degree, idx0, l_extra, r_extra) ==
    LET num_intervals == NumIntervals(knots)
        num_splines == NumSplines(knots, degree)
        idx == ResolveIdx(knots, degree, idx0)
        lb0 == Rat(knots[IMax(idx - degree, 0) + 1])
        ub0 == Rat(knots[IMin(idx + 1, num_intervals) + 1])
        lb == IF idx = 0 /\ l_extra THEN NegInf ELSE lb0
        ub == IF idx = num_splines /\ r_extra THEN PosInf ELSE ub0
    IN  <<lb, ub>>

bspline_domain(knots, degree, idx0, l_extra, r_extra) ==
    LET num_intervals == NumIntervals(knots)
        num_splines == NumSplines(knots, degree)
        idx == ResolveIdx(knots, degree, idx0)
        lb0 == Rat(knots[IMax(idx - degree, 0) + 1])
        ub0 == Rat(knots[IMin(idx + 1, num_intervals) + 1])
        lb == IF idx = 0 /\ l_extra THEN NegInf ELSE lb0
        ub == IF idx = num_splines - 1 /\ r_extra THEN PosInf ELSE ub0
    IN  <<lb, ub>>

RECURSIVE bspline_fun(_, _, _, _, _, _)

\* mutant: the degree-0 piece is never closed on the right
fun_degree0_open(x, knots, idx, l_extra, r_extra) ==
    indicator_f(x, bspline_domain(knots, 0, idx, l_extra, r_extra), TRUE, FALSE)

\* degree == 0: the indicator of the support, closed on the right only for
\* the last basis
fun_degree0(x, knots, idx, l_extra, r_extra) ==
    indicator_f(x, bspline_domain(knots, 0, idx, l_extra, r_extra),
                TRUE, idx = NumSplines(knots, 0) - 1)

\* mutant: the first basis takes the rising ramp instead of the falling one
fun_first_rising(x, knots, degree, l_extra, r_extra) ==
    RMul(indicator_f(x, bspline_domain(knots, degree, 0, l_extra, r_extra),
                     TRUE, FALSE),
         RPow(linear_lf(x, bspline_domain(knots, degree, 0, FALSE, FALSE)),
              degree))

\* idx == 0: a power of the falling ramp over the first interval
fun_first(x, knots, degree, l_extra, r_extra) ==
    RMul(indicator_f(x, bspline_domain(knots, degree, 0, l_extra, r_extra),
                     TRUE, FALSE),
         RPow(linear_rf(x, bspline_domain(knots, degree, 0, FALSE, FALSE)),
              degree))

\* mutant: the last basis is extrapolated to the right whatever r_extra says
fun_last_always_extra(x, knots, degree, l_extra, r_extra) ==
    LET idx == NumSplines(knots, degree) - 1
    IN  RMul(indicator_f(x, bspline_domain(knots, degree, idx, l_extra, TRUE),
                         TRUE, TRUE),
             RPow(linear_lf(x, bspline_domain(knots, degree, idx, FALSE, FALSE)),
                  degree))

\* idx == num_splines - 1: a power of the rising ramp over the last interval
fun_last(x, knots, degree, l_extra, r_extra) ==
    LET idx == NumSplines(knots, degree) - 1
    IN  RMul(indicator_f(x, bspline_domain(knots, degree, idx, l_extra, r_extra),
                         TRUE, TRUE),
             RPow(linear_lf(x, bspline_domain(knots, degree, idx, FALSE, FALSE)),
                  degree))

\* mutant: the two ramps of the blend are swapped
fun_blend_swapped(x, knots, degree, idx, l_extra, r_extra) ==
    LET lc == bspline_fun(x, knots, degree - 1, idx - 1, l_extra, r_extra)
        rc == bspline_fun(x, knots, degree - 1, idx, l_extra, r_extra)
        lf == RMul(lc, linear_rf(x, bspline_domain(knots, degree - 1, idx - 1,
                                                   FALSE, FALSE)))
        rf == RMul(rc, linear_lf(x, bspline_domain(knots, degree - 1, idx,
                                                   FALSE, FALSE)))
    IN  CASE Evaluated(lc, rc) -> RAdd(lf, rf)

\* an interior basis: the blend of the two bases of one degree less
fun_blend(x, knots, degree, idx, l_extra, r_extra) ==
    LET lc == bspline_fun(x, knots, degree - 1, idx - 1, l_extra, r_extra)
        rc == bspline_fun(x, knots, degree - 1, idx, l_extra, r_extra)
        lf == RMul(lc, linear_lf(x, bspline_domain(knots, degree - 1, idx - 1,
                                                   FALSE, FALSE)))
        rf == RMul(rc, linear_rf(x, bspline_domain(knots, degree - 1, idx,
                                                   FALSE, FALSE)))
    IN  CASE Evaluated(lc, rc) -> RAdd(lf, rf)

bspline_fun(x, knots, degree, idx0, l_extra, r_extra) ==
    LET num_splines == NumSplines(knots, degree)
        idx == ResolveIdx(knots, degree, idx0)
    IN  IF degree = 0 THEN fun_degree0(x, knots, idx, l_extra, r_extra)
        ELSE IF idx = 0 THEN fun_first(x, knots, degree, l_extra, r_extra)
        ELSE IF idx = num_splines - 1
        THEN fun_last(x, knots, degree, l_extra, r_extra)
        ELSE fun_blend(x, knots, degree, idx, l_extra, r_extra)

RECURSIVE bspline_dfun(_, _, _, _, _, _, _)

\* 1 <= order <= degree: the product rule applied to the blend of the two
\* bases of one degree less
dfun_recurse(x, knots, degree, order, idx, l_extra, r_extra) ==
    LET num_splines == NumSplines(knots, degree)
        first == idx = 0
        last == idx = num_splines - 1
        rb == bspline_domain(knots, degree - 1, idx - 1, FALSE, FALSE)
        rd == RSub(rb[2], rb[1])
        r1 == IF first THEN Zero
              ELSE bspline_dfun(x, knots, degree - 1, order, idx - 1,
                                l_extra, r_extra)
        r2 == IF first THEN Zero
              ELSE bspline_dfun(x, knots, degree - 1, order - 1, idx - 1,
                                l_extra, r_extra)
        rdf == IF first THEN Zero
               ELSE RAdd(RMul(RDiv(RSub(x, rb[1]), rd), r1),
                         RDiv(RMul(Rat(order), r2), rd))
        lb == bspline_domain(knots, degree - 1, idx, FALSE, FALSE)
        ld == RSub(lb[1], lb[2])
        l1 == IF last THEN Zero
              ELSE bspline_dfun(x, knots, degree - 1, order, idx,
                                l_extra, r_extra)
        l2 == IF last THEN Zero
              ELSE bspline_dfun(x, knots, degree - 1, order - 1, idx,
                                l_extra, r_extra)
        ldf == IF last THEN Zero
               ELSE RAdd(RMul(RDiv(RSub(x, lb[2]), ld), l1),
                         RDiv(RMul(Rat(order), l2), ld))
    IN  CASE Evaluated(r1, r2) /\ Evaluated(l1, l2) -> RAdd(ldf, rdf)

\* mutant: the vanishing test comes first and reads order >= degree
bspline_dfun_vanish_first(x, knots, degree, order, idx0, l_extra, r_extra) ==
    LET idx == ResolveIdx(knots, degree, idx0)
    IN  IF order >= degree THEN Zero
        ELSE IF order = 0
        THEN bspline_fun(x, knots, degree, idx, l_extra, r_extra)
        ELSE dfun_recurse(x, knots, degree, order, idx, l_extra, r_extra)

bspline_dfun(x, knots, degree, order, idx0, l_extra, r_extra) ==
    LET idx == ResolveIdx(knots, degree, idx0)
    IN  IF order = 0
        THEN bspline_fun(x, knots, degree, idx, l_extra, r_extra)
        ELSE IF order > degree THEN Zero
        ELSE dfun_recurse(x, knots, degree, order, idx, l_extra, r_extra)

RECURSIVE bspline_ifun(_, _, _, _, _, _, _, _)

\* mutant: the higher-order term is added, as in the derivative, instead of
\* subtracted
ifun_recurse_added(a, x, knots, degree, order, idx, l_extra, r_extra) ==
    LET num_splines == NumSplines(knots, degree)
        first == idx = 0
        last == idx = num_splines - 1
        rb == bspline_domain(knots, degree - 1, idx - 1, FALSE, FALSE)
        rd == RSub(rb[2], rb[1])
        r1 == IF first THEN Zero
              ELSE bspline_ifun(a, x, knots, degree - 1, order, idx - 1,
                                l_extra, r_extra)
        r2 == IF first THEN Zero
              ELSE bspline_ifun(a, x, knots, degree - 1, order + 1, idx - 1,
                                l_extra, r_extra)
        rif == IF first THEN Zero
               ELSE RAdd(RMul(RDiv(RSub(x, rb[1]), rd), r1),
                         RDiv(RMul(Rat(order), r2), rd))
        lb == bspline_domain(knots, degree - 1, idx, FALSE, FALSE)
        ld == RSub(lb[1], lb[2])
        l1 == IF last THEN Zero
              ELSE bspline_ifun(a, x, knots, degree - 1, order, idx,
                                l_extra, r_extra)
        l2 == IF last THEN Zero
              ELSE bspline_ifun(a, x, knots, degree - 1, order + 1, idx,
                                l_extra, r_extra)
        lif == IF last THEN Zero
               ELSE RAdd(RMul(RDiv(RSub(x, lb[2]), ld), l1),
                         RDiv(RMul(Rat(order), l2), ld))
    IN  CASE Evaluated(r1, r2) /\ Evaluated(l1, l2) -> RAdd(lif, rif)

\* order >= 1, degree >= 1: integration by parts applied to the blend of the
\* two bases of one degree less
ifun_recurse(a, x, knots, degree, order, idx, l_extra, r_extra) ==
    LET num_splines == NumSplines(knots, degree)
        first == idx = 0
        last == idx = num_splines - 1
        rb == bspline_domain(knots, degree - 1, idx - 1, FALSE, FALSE)
        rd == RSub(rb[2], rb[1])
        r1 == IF first THEN Zero
              ELSE bspline_ifun(a, x, knots, degree - 1, order, idx - 1,
                                l_extra, r_extra)
        r2 == IF first THEN Zero
              ELSE bspline_ifun(a, x, knots, degree - 1, order + 1, idx - 1,
                                l_extra, r_extra)
        rif == IF first THEN Zero
               ELSE RSub(RMul(RDiv(RSub(x, rb[1]), rd), r1),
                         RDiv(RMul(Rat(order), r2), rd))
        lb == bspline_domain(knots, degree - 1, idx, FALSE, FALSE)
        ld == RSub(lb[1], lb[2])
        l1 == IF last THEN Zero
              ELSE bspline_ifun(a, x, knots, degree - 1, order, idx,
                                l_extra, r_extra)
        l2 == IF last THEN Zero
              ELSE bspline_ifun(a, x, knots, degree - 1, order + 1, idx,
                                l_extra, r_extra)
        lif == IF last THEN Zero
               ELSE RSub(RMul(RDiv(RSub(x, lb[2]), ld), l1),
                         RDiv(RMul(Rat(order), l2), ld))
    IN  CASE Evaluated(r1, r2) /\ Evaluated(l1, l2) -> RAdd(lif, rif)

bspline_ifun(a, x, knots, degree, order, idx0, l_extra, r_extra) ==
    LET idx == ResolveIdx(knots, degree, idx0)
    IN  IF order = 0
        THEN bspline_fun(x, knots, degree, idx, l_extra, r_extra)
        ELSE IF degree = 0
        THEN indicator_if(a, x, order,
                          bspline_domain(knots, degree, idx, l_extra, r_extra))
        ELSE ifun_recurse(a, x, knots, degree, order, idx, l_extra, r_extra)

(* ------------------------------ state ---------------------------------- *)
\* knots, degree: the spline family the evaluators are called on
\* op:   the evaluator that last returned ("ready" before a call)
\* args: the arguments of that call
\* val:  the number an evaluator returned;  dom: the interval a support
\*       resolver returned
\* spline: the XSpline object (built = FALSE while there is none)
\* ctor: the arguments the XSpline constructor was last called with
\* err:  the exception the last call raised ("none" if it returned)
\* stack: the frames of the evaluator calls in progress, the entry call first
VARIABLES knots, degree, op, args, val, dom, spline, ctor, err, stack

vars == <<knots, degree, op, args, val, dom, spline, ctor, err, stack>>

RECURSIVE SortedSeq(_)
SortedSeq(S) ==
    IF S = {} THEN <<>>
    ELSE LET m == CHOOSE e \in S : \A f \in S : e <= f
         IN  <<m>> \o SortedSeq(S \ {m})

\* strictly increasing knot sequences with at least two knots
KnotSeqs == {SortedSeq(S) : S \in {T \in SUBSET (0..MaxKnot) : Cardinality(T) >= 2}}
Degrees == 0..MaxDegree
\* evaluation points: the grid from one unit left of the knots k to one unit
\* right of them
Points(k) == {Norm(n, XDen) : n \in ((k[1] - 1) * XDen)..((k[Len(k)] + 1) * XDen)}
Orders == 0..(MaxDegree + ExtraOrder)
\* the integral evaluator is run on the half-integer points, from a lower
\* bound left of the span or inside it, with both flags off or both on, for
\* order 0 (plain evaluation) and order 1 (the integral)
HalfPoints(k) == {Norm(n, 2) : n \in (2 * (k[1] - 1))..(2 * (k[Len(k)] + 1))}
IOrders == {0, 1}
LowerBounds == {Rat(-1), <<1, 2>>}
BothFlags == {<<FALSE, FALSE>>, <<TRUE, TRUE>>}
ValidIdx(k, d) == (-1)..(NumSplines(k, d) - 1)
NoDom == <<Zero, Zero>>
NoArgs == [x |-> Zero, idx |-> 0, l_extra |-> FALSE, r_extra |-> FALSE,
           order |-> 0, a |-> Zero]

(* --------------------------- class XSpline ----------------------------- *)
Range(q) == {q[i] : i \in 1..Len(q)}
int_of(flag) == IF flag THEN 1 ELSE 0

NoSpline == [built |-> FALSE, knots |-> <<>>, degree |-> 0,
             l_linear |-> FALSE, r_linear |-> FALSE,
             num_knots |-> 0, num_intervals |-> 0, num_spline_bases |-> 0,
             inner_knots |-> <<>>, lb |-> 0, ub |-> 0,
             inner_lb |-> 0, inner_ub |-> 0]

\* mutant: the interval check forgets the interval the spline itself needs
XSpline_init_no_inner_interval(raw_knots, degree_in, l_linear, r_linear) ==
    LET ks == SortedSeq(Range(raw_knots))
        num_knots == Len(ks)
        num_intervals == num_knots - 1
        int_l_linear == int_of(l_linear)
        int_r_linear == int_of(r_linear)
        inner_knots == SubSeq(ks, int_l_linear + 1, num_knots - int_r_linear)
    IN  IF ~(num_intervals >= int_l_linear + int_r_linear /\ num_knots >= 2)
        THEN [err |-> "AssertionError", self |-> NoSpline]
        ELSE IF ~(degree_in.int /\ RLe(Zero, degree_in.v))
        THEN [err |-> "AssertionError", self |-> NoSpline]
        ELSE IF inner_knots = <<>>
        THEN [err |-> "IndexError", self |-> NoSpline]
        ELSE [err |-> "none",
              self |-> [built |-> TRUE, knots |-> ks, degree |-> degree_in.v[1],
                        l_linear |-> l_linear, r_linear |-> r_linear,
                        num_knots |-> num_knots, num_intervals |-> num_intervals,
                        num_spline_bases |-> num_intervals + degree_in.v[1],
                        inner_knots |-> inner_knots,
                        lb |-> ks[1], ub |-> ks[num_knots],
                        inner_lb |-> inner_knots[1],
                        inner_ub |-> inner_knots[Len(inner_knots)]]]

\* XSpline.__init__: the knots are deduplicated and sorted, the two asserts
\* run, and the inner knots and the four boundaries are derived; a failed
\* assert raises and leaves no object
XSpline_init(raw_knots, degree_in, l_linear, r_linear) ==
    LET ks == SortedSeq(Range(raw_knots))
        num_knots == Len(ks)
        num_intervals == num_knots - 1
        int_l_linear == int_of(l_linear)
        int_r_linear == int_of(r_linear)
        inner_knots == SubSeq(ks, int_l_linear + 1, num_knots - int_r_linear)
    IN  IF ~(num_intervals >= 1 + int_l_linear + int_r_linear)
        THEN [err |-> "AssertionError", self |-> NoSpline]
        ELSE IF ~(degree_in.int /\ RLe(Zero, degree_in.v))
        THEN [err |-> "AssertionError", self |-> NoSpline]
        ELSE [err |-> "none",
              self |-> [built |-> TRUE, knots |-> ks, degree |-> degree_in.v[1],
                        l_linear |-> l_linear, r_linear |-> r_linear,
                        num_knots |-> num_knots, num_intervals |-> num_intervals,
                        num_spline_bases |-> num_intervals + degree_in.v[1],
                        inner_knots |-> inner_knots,
                        lb |-> ks[1], ub |-> ks[num_knots],
                        inner_lb |-> inner_knots[1],
                        inner_ub |-> inner_knots[Len(inner_knots)]]]

\* XSpline.domain: the support over the inner knots, widened to the outer
\* boundary where it reaches the inner one
XSpline_domain(self, idx, l_extra, r_extra) ==
    LET inner_domain == bspline_domain(self.inner_knots, self.degree, idx,
                                       l_extra, r_extra)
        lb == IF inner_domain[1] = Rat(self.inner_lb) THEN Rat(self.lb)
              ELSE inner_domain[1]
        ub == IF inner_domain[2] = Rat(self.inner_ub) THEN Rat(self.ub)
              ELSE inner_domain[2]
    IN  <<lb, ub>>

\* the value XSpline.fun writes into a linear tail: the first-order Taylor
\* expansion of the basis at the inner boundary z
TailValue(self, x, idx, z) ==
    LET f == bspline_fun(z, self.inner_knots, self.degree, idx, FALSE, FALSE)
        df == bspline_dfun(z, self.inner_knots, self.degree, 1, idx, FALSE, FALSE)
    IN  CASE Evaluated(f, df) -> RAdd(f, RMul(df, RSub(x, z)))

\* mutant: the tail is anchored at the value alone, the slope is dropped
XSpline_fun_flat_tail(self, x, idx, l_extra, r_extra) ==
    LET inner_lb == Rat(self.inner_lb)
        inner_ub == Rat(self.inner_ub)
        l_idx == self.l_linear /\ RLt(x, inner_lb)
                    /\ (RLe(Rat(self.lb), x) \/ l_extra)
        u_idx == self.r_linear /\ RLt(inner_ub, x)
                    /\ (RLe(x, Rat(self.ub)) \/ r_extra)
        m_idx == /\ self.l_linear => RLe(inner_lb, x)
                 /\ self.r_linear => RLe(x, inner_ub)
    IN  IF ~self.l_linear /\ ~self.r_linear
        THEN bspline_fun(x, self.inner_knots, self.degree, idx, l_extra, r_extra)
        ELSE IF m_idx
        THEN bspline_fun(x, self.inner_knots, self.degree, idx, l_extra, r_extra)
        ELSE IF u_idx
        THEN bspline_fun(inner_ub, self.inner_knots, self.degree, idx, FALSE, FALSE)
        ELSE IF l_idx
        THEN bspline_fun(inner_lb, self.inner_knots, self.degree, idx, FALSE, FALSE)
        ELSE Zero

\* XSpline.fun for one point x: f starts at 0, the left tail, the right tail
\* and the interior are written in this order under their masks
XSpline_fun(self, x, idx, l_extra, r_extra) ==
    LET inner_lb == Rat(self.inner_lb)
        inner_ub == Rat(self.inner_ub)
        l_idx == self.l_linear /\ RLt(x, inner_lb)
                    /\ (RLe(Rat(self.lb), x) \/ l_extra)
        u_idx == self.r_linear /\ RLt(inner_ub, x)
                    /\ (RLe(x, Rat(self.ub)) \/ r_extra)
        m_idx == /\ self.l_linear => RLe(inner_lb, x)
                 /\ self.r_linear => RLe(x, inner_ub)
    IN  IF ~self.l_linear /\ ~self.r_linear
        THEN bspline_fun(x, self.inner_knots, self.degree, idx, l_extra, r_extra)
        ELSE IF m_idx
        THEN bspline_fun(x, self.inner_knots, self.degree, idx, l_extra, r_extra)
        ELSE IF u_idx THEN TailValue(self, x, idx, inner_ub)
        ELSE IF l_idx THEN TailValue(self, x, idx, inner_lb)
        ELSE Zero

(* ------------------- the evaluators' nested calls --------------------- *)
\* a frame: the evaluator called, the degree, order and (resolved) index it
\* was called with, and pc, the next of its nested calls to make
Callee(fn, d, o, i) == [fn |-> fn, degree |-> d, order |-> o, idx |-> i, pc |-> 1]

\* mutant: the blend is taken for the last basis too
fun_calls_no_last(k, d, idx) ==
    IF d = 0 \/ idx = 0
    THEN <<>>
    ELSE <<Callee("fun", d - 1, 0, idx - 1), Callee("fun", d - 1, 0, idx)>>

\* the calls bspline_fun makes to itself, in order: none for degree 0 and for
\* the first and last basis, else the two children of the blend
fun_calls(k, d, idx) ==
    IF d = 0 \/ idx = 0 \/ idx = NumSplines(k, d) - 1
    THEN <<>>
    ELSE <<Callee("fun", d - 1, 0, idx - 1), Callee("fun", d - 1, 0, idx)>>

\* the calls bspline_dfun makes: order 0 hands over to bspline_fun, an order
\* above the degree returns zeros, else two calls per side present
dfun_calls(k, d, order, idx) ==
    IF order = 0 THEN <<Callee("fun", d, 0, idx)>>
    ELSE IF order > d THEN <<>>
    ELSE (IF idx = 0 THEN <<>>
          ELSE <<Callee("dfun", d - 1, order, idx - 1),
                 Callee("dfun", d - 1, order - 1, idx - 1)>>)
         \o
         (IF idx = NumSplines(k, d) - 1 THEN <<>>
          ELSE <<Callee("dfun", d - 1, order, idx),
                 Callee("dfun", d - 1, order - 1, idx)>>)

\* the calls bspline_ifun makes: order 0 hands over to bspline_fun, degree 0
\* is the closed form, else two calls per side present
ifun_calls(k, d, order, idx) ==
    IF order = 0 THEN <<Callee("fun", d, 0, idx)>>
    ELSE IF d = 0 THEN <<>>
    ELSE (IF idx = 0 THEN <<>>
          ELSE <<Callee("ifun", d - 1, order, idx - 1),
                 Callee("ifun", d - 1, order + 1, idx - 1)>>)
         \o
         (IF idx = NumSplines(k, d) - 1 THEN <<>>
          ELSE <<Callee("ifun", d - 1, order, idx),
                 Callee("ifun", d - 1, order + 1, idx)>>)

Calls(k, f) ==
    CASE f.fn = "fun" -> fun_calls(k, f.degree, f.idx)
      [] f.fn = "dfun" -> dfun_calls(k, f.degree, f.order, f.idx)
      [] f.fn = "ifun" -> ifun_calls(k, f.degree, f.order, f.idx)

\* the point and the lower limit the traced calls are made with (no branch
\* of the evaluators depends on them)
TraceX == <<1, 2>>
TraceA == Rat(-1)
EntryOrders(fn) ==
    CASE fn = "fun" -> {0}
      [] fn = "dfun" -> Orders
      [] fn = "ifun" -> IOrders

\* constructor inputs: knot lists in any order and with repeats, integer
\* degrees from -1 and two float degrees, 1.5 and 1.0
RawKnots == UNION {[1..n -> 0..MaxKnot] : n \in 0..MaxRawLen}
DegreeInputs == {[int |-> TRUE, v |-> Rat(d)] : d \in (-1)..MaxDegree}
                    \cup {[int |-> FALSE, v |-> <<3, 2>>], [int |-> FALSE, v |-> One]}
NoCtor == [knots |-> <<>>, degree |-> [int |-> TRUE, v |-> Zero],
           l_linear |-> FALSE, r_linear |-> FALSE]

Init ==
    /\ knots \in KnotSeqs
    /\ degree \in Degrees
    /\ op = "ready"
    /\ args = NoArgs
    /\ val = Zero
    /\ dom = NoDom
    /\ spline = NoSpline
    /\ ctor = NoCtor
    /\ err = "none"
    /\ stack = <<>>

CallDomain ==
    /\ op = "ready"
    /\ \E idx \in ValidIdx(knots, degree), le \in BOOLEAN, re \in BOOLEAN :
         /\ args' = [NoArgs EXCEPT !.idx = idx, !.l_extra = le, !.r_extra = re]
         /\ dom' = bspline_domain(knots, degree, idx, le, re)
    /\ op' = "domain"
    /\ UNCHANGED <<knots, degree, val, spline, ctor, err, stack>>

CallFun ==
    /\ op = "ready"
    /\ \E x \in Points(knots), idx \in ValidIdx(knots, degree),
          le \in BOOLEAN, re \in BOOLEAN :
         /\ args' = [NoArgs EXCEPT !.x = x, !.idx = idx,
                                   !.l_extra = le, !.r_extra = re]
         /\ val' = bspline_fun(x, knots, degree, idx, le, re)
    /\ op' = "fun"
    /\ UNCHANGED <<knots, degree, dom, spline, ctor, err, stack>>

CallDfun ==
    /\ op = "ready"
    /\ \E x \in Points(knots), idx \in ValidIdx(knots, degree), order \in Orders,
          le \in BOOLEAN, re \in BOOLEAN :
         /\ args' = [NoArgs EXCEPT !.x = x, !.idx = idx, !.order = order,
                                   !.l_extra = le, !.r_extra = re]
         /\ val' = bspline_dfun(x, knots, degree, order, idx, le, re)
    /\ op' = "dfun"
    /\ UNCHANGED <<knots, degree, dom, spline, ctor, err, stack>>

CallIfun ==
    /\ op = "ready"
    /\ \E a \in LowerBounds, x \in HalfPoints(knots),
          idx \in 0..(NumSplines(knots, degree) - 1),
          order \in IOrders, fl \in BothFlags :
         /\ args' = [NoArgs EXCEPT !.a = a, !.x = x, !.idx = idx, !.order = order,
                                   !.l_extra = fl[1], !.r_extra = fl[2]]
         /\ val' = bspline_ifun(a, x, knots, degree, order, idx, fl[1], fl[2])
    /\ op' = "ifun"
    /\ UNCHANGED <<knots, degree, dom, spline, ctor, err, stack>>

Construct ==
    /\ op = "ready"
    /\ ~spline.built
    /\ \E raw \in RawKnots, d \in DegreeInputs, ll \in BOOLEAN, rl \in BOOLEAN :
         LET r == XSpline_init(raw, d, ll, rl)
         IN  /\ ctor' = [knots |-> raw, degree |-> d, l_linear |-> ll,
                         r_linear |-> rl]
             /\ spline' = r.self
             /\ err' = r.err
    /\ op' = "XSpline"
    /\ UNCHANGED <<knots, degree, args, val, dom, stack>>

CallXDomain ==
    /\ op = "ready"
    /\ spline.built
    /\ \E idx \in ValidIdx(spline.inner_knots, spline.degree),
          le \in BOOLEAN, re \in BOOLEAN :
         /\ args' = [NoArgs EXCEPT !.idx = idx, !.l_extra = le, !.r_extra = re]
         /\ dom' = XSpline_domain(spline, idx, le, re)
    /\ op' = "xdomain"
    /\ UNCHANGED <<knots, degree, val, spline, ctor, err, stack>>

CallXFun ==
    /\ op = "ready"
    /\ spline.built
    /\ \E x \in Points(spline.knots),
          idx \in ValidIdx(spline.inner_knots, spline.degree),
          le \in BOOLEAN, re \in BOOLEAN :
         /\ args' = [NoArgs EXCEPT !.x = x, !.idx = idx,
                                   !.l_extra = le, !.r_extra = re]
         /\ val' = XSpline_fun(spline, x, idx, le, re)
    /\ op' = "xfun"
    /\ UNCHANGED <<knots, degree, dom, spline, ctor, err, stack>>

\* an evaluator is entered from outside
Enter ==
    /\ op = "ready"
    /\ stack = <<>>
    /\ \E fn \in {"fun", "dfun", "ifun"}, idx \in ValidIdx(knots, degree) :
         \E order \in EntryOrders(fn) :
            /\ args' = [NoArgs EXCEPT !.x = TraceX, !.a = TraceA,
                                      !.idx = idx, !.order = order]
            /\ stack' = <<Callee(fn, degree, order,
                                 ResolveIdx(knots, degree, idx))>>
    /\ op' = "eval"
    /\ UNCHANGED <<knots, degree, val, dom, spline, ctor, err>>

\* the running evaluator makes its next nested call
Descend ==
    /\ op = "eval"
    /\ LET n == Len(stack)
           top == stack[n]
           cs == Calls(knots, top)
       IN  /\ top.pc <= Len(cs)
           /\ stack' = Append([stack EXCEPT ![n].pc = top.pc + 1], cs[top.pc])
    /\ UNCHANGED <<knots, degree, op, args, val, dom, spline, ctor, err>>

\* a nested call has made all its calls and returns to its caller
Ascend ==
    /\ op = "eval"
    /\ LET n == Len(stack)
           top == stack[n]
       IN  /\ n > 1
           /\ top.pc > Len(Calls(knots, top))
           /\ stack' = SubSeq(stack, 1, n - 1)
    /\ UNCHANGED <<knots, degree, op, args, val, dom, spline, ctor, err>>

\* the value the entry call returns
EntryValue(fn) ==
    CASE fn = "fun" ->
             bspline_fun(args.x, knots, degree, args.idx, FALSE, FALSE)
      [] fn = "dfun" ->
             bspline_dfun(args.x, knots, degree, args.order, args.idx,
                          FALSE, FALSE)
      [] fn = "ifun" ->
             bspline_ifun(args.a, args.x, knots, degree, args.order,
                          args.idx, FALSE, FALSE)

\* the entry call has made all its calls and returns its value
Finish ==
    /\ op = "eval"
    /\ Len(stack) = 1
    /\ stack[1].pc > Len(Calls(knots, stack[1]))
    /\ op' = stack[1].fn
    /\ val' = EntryValue(stack[1].fn)
    /\ stack' = <<>>
    /\ UNCHANGED <<knots, degree, args, dom, spline, ctor, err>>

\* the call returns (or its exception is handled): the caller keeps only the
\* object
Return ==
    /\ op \notin {"ready", "eval"}
    /\ op' = "ready"
    /\ args' = NoArgs
    /\ val' = Zero
    /\ dom' = NoDom
    /\ ctor' = NoCtor
    /\ err' = "none"
    /\ UNCHANGED <<knots, degree, spline, stack>>

\* the support resolver and the basis evaluator
Next == CallDomain \/ CallFun \/ Return
Spec == Init /\ [][Next]_vars

\* the derivative evaluator
NextD == CallDfun \/ Return
SpecD == Init /\ [][NextD]_vars

\* the integral evaluator, on the knot sequences that start at 0
InitI == Init /\ knots[1] = 0
NextI == CallIfun \/ Return
SpecI == InitI /\ [][NextI]_vars

\* the XSpline facade: construction, then support and value queries
InitX == Init /\ knots = <<0, 1>> /\ degree = 0
NextX == Construct \/ CallXDomain \/ CallXFun \/ Return
SpecX == InitX /\ [][NextX]_vars

\* the evaluators traced call by call; a call in progress keeps running
UnitKnots == {[i \in 1..n |-> i - 1] : n \in 2..(MaxKnot + 1)}
InitR == Init /\ knots \in UnitKnots
\* what Finish does to the stack: the fairness condition is stated on it
Completes ==
    /\ op = "eval"
    /\ Len(stack) = 1
    /\ stack[1].pc > Len(Calls(knots, stack[1]))
    /\ stack' = <<>>
NextR == Enter \/ Descend \/ Ascend \/ Finish \/ Return
SpecR == InitR /\ [][NextR]_vars
              /\ WF_vars(Descend) /\ WF_vars(Ascend) /\ WF_stack(Completes)

(* ------------------------------ claims --------------------------------- *)
FirstKnot == Rat(knots[1])
LastKnot == Rat(knots[Len(knots)])
InSpan(x) == RLe(FirstKnot, x) /\ RLe(x, LastKnot)
NoExtra == ~args.l_extra /\ ~args.r_extra
LastIdx == NumSplines(knots, degree) - 1
ArgIdx == ResolveIdx(knots, degree, args.idx)

RECURSIVE SumBases(_, _)
\* sum of the bases 0..n of the family at x, without extrapolation
SumBases(x, n) ==
    IF n < 0 THEN Zero
    ELSE LET f == bspline_fun(x, knots, degree, n, FALSE, FALSE)
             rest == SumBases(x, n - 1)
         IN  CASE Evaluated(f, rest) -> RAdd(f, rest)

\* C1: without extrapolation the bases of a family sum to exactly 1 at every
\* x of the closed knot span, the knots and both end points included.
C1_PartitionOfUnity ==
    (op = "fun" /\ NoExtra /\ InSpan(args.x)) => SumBases(args.x, LastIdx) = One

\* a basis was evaluated at the right end point of a degree-2 family
C1_Witness ==
    /\ op = "fun" /\ NoExtra /\ degree = 2 /\ Len(knots) >= 3
    /\ args.x = LastKnot /\ ArgIdx = LastIdx /\ val = One

\* C2 as stated: the basis is non-negative at every x under every setting of
\* the extrapolation flags.
C2_NonNegativeEverywhere == op = "fun" => RLe(Zero, val)

\* C2 amended: the basis is non-negative at every x of the knot span under
\* every setting of the flags, at every x when both flags are off, and at
\* every x for the first and the last basis.
C2_NonNegative ==
    (op = "fun" /\ (InSpan(args.x) \/ NoExtra \/ ArgIdx \in {0, LastIdx}))
        => RLe(Zero, val)

\* an interior basis was evaluated inside the span with both flags set and
\* came out positive
C2_Witness ==
    /\ op = "fun" /\ args.l_extra /\ args.r_extra /\ InSpan(args.x)
    /\ degree = 2 /\ ArgIdx \notin {0, LastIdx} /\ RLt(Zero, val)

ScenarioA == knots = <<0, 1, 2, 3>> /\ degree = 1 /\ op = "fun"
                 /\ args.idx = 1 /\ NoExtra

\* C3 as stated: knots [0, 1, 2, 3], degree 1, idx 1: basis(1) = 1,
\* basis(1/2) = 1/2, basis(5/2) = 1/4 and basis(-1/2) = 0.
C3_ScenarioA_AsStated ==
    ScenarioA => /\ args.x = <<1, 1>> => val = <<1, 1>>
                 /\ args.x = <<1, 2>> => val = <<1, 2>>
                 /\ args.x = <<5, 2>> => val = <<1, 4>>
                 /\ args.x = <<-1, 2>> => val = <<0, 1>>

\* C3 amended: knots [0, 1, 2, 3], degree 1, idx 1: basis(1) = 1,
\* basis(1/2) = 1/2, basis(5/2) = 0 and basis(-1/2) = 0.
C3_ScenarioA ==
    ScenarioA => /\ args.x = <<1, 1>> => val = <<1, 1>>
                 /\ args.x = <<1, 2>> => val = <<1, 2>>
                 /\ args.x = <<5, 2>> => val = <<0, 1>>
                 /\ args.x = <<-1, 2>> => val = <<0, 1>>

\* the basis of scenario A was evaluated at 5/2
C3_Witness == ScenarioA /\ args.x = <<5, 2>>

\* C4: without extrapolation the basis is 0 at every x strictly outside
\* bspline_domain(knots, degree, idx).
C4_SupportContainment ==
    (op = "fun" /\ NoExtra) =>
        LET b == bspline_domain(knots, degree, args.idx, FALSE, FALSE)
        IN  (RLt(args.x, b[1]) \/ RLt(b[2], args.x)) => val = Zero

\* an interior basis was evaluated inside the knot span but right of its
\* support
C4_Witness ==
    /\ op = "fun" /\ NoExtra /\ degree >= 1 /\ ArgIdx \notin {0, LastIdx}
    /\ InSpan(args.x)
    /\ RLt(bspline_domain(knots, degree, args.idx, FALSE, FALSE)[2], args.x)

\* C9: bspline_domain returns lb = knots[max(idx - d, 0)] and
\* ub = knots[min(idx + 1, num_intervals)], idx = -1 standing for the last
\* basis, except that lb is -inf exactly when l_extra is set and idx is the
\* first basis and ub is +inf exactly when r_extra is set and idx is the last
\* basis; and lb < ub.
C9_DomainResolution ==
    op = "domain" =>
        LET i == IF args.idx = -1 THEN LastIdx ELSE args.idx
            lo == i - degree
            hi == i + 1
            klb == Rat(knots[(IF lo > 0 THEN lo ELSE 0) + 1])
            kub == Rat(knots[(IF hi < Len(knots) - 1 THEN hi ELSE Len(knots) - 1) + 1])
        IN  /\ (dom[1] = NegInf) <=> (args.l_extra /\ i = 0)
            /\ (dom[2] = PosInf) <=> (args.r_extra /\ i = LastIdx)
            /\ dom[1] # NegInf => dom[1] = klb
            /\ dom[2] # PosInf => dom[2] = kub
            /\ dom[1] # PosInf /\ dom[2] # NegInf
            /\ RLt(dom[1], dom[2])

\* the support of the last basis, named by -1, was resolved with r_extra set
C9_Witness ==
    /\ op = "domain" /\ args.idx = -1 /\ args.r_extra /\ ~args.l_extra
    /\ degree = 2 /\ dom[2] = PosInf /\ dom[1] = Rat(knots[Len(knots) - 1])

IsKnot(x) == \E i \in 1..Len(knots) : x = Rat(knots[i])

\* the derivative at x of the piece of x |-> bspline_ifun(a, x, ..., 1, idx)
\* around x, by the five-point central difference with step 1/8: exact for a
\* polynomial of degree <= 4, and no knot lies within two steps of a
\* half-integer point that is not a knot
DIfun(a, x, idx, le, re) ==
    LET e == <<1, 8>>
        F(t) == bspline_ifun(a, t, knots, degree, 1, idx, le, re)
        f1 == F(RAdd(x, e))
        f2 == F(RAdd(x, RAdd(e, e)))
        g1 == F(RSub(x, e))
        g2 == F(RSub(x, RAdd(e, e)))
    IN  CASE Evaluated(f1, f2) /\ Evaluated(g1, g2) ->
             RDiv(RAdd(RSub(g2, f2), RMul(Rat(8), RSub(f1, g1))),
                  RMul(Rat(12), e))

\* C7: bspline_ifun(a, x, knots, degree, 1, idx), called as the claim calls it
\* (both flags at their default, False), is 0 at x = a, and at every x that
\* is not a knot its derivative in x is bspline_fun(x, knots, degree, idx).
C7_FundamentalTheorem ==
    (op = "ifun" /\ args.order = 1 /\ NoExtra) =>
        /\ args.x = args.a => val = Zero
        /\ ~IsKnot(args.x) =>
              DIfun(args.a, args.x, args.idx, args.l_extra, args.r_extra)
                = bspline_fun(args.x, knots, degree, args.idx,
                              args.l_extra, args.r_extra)

\* the integral of an interior degree-2 basis was taken from a point inside
\* the span to a later point that is not a knot, where the basis is not 0
C7_Witness ==
    /\ op = "ifun" /\ args.order = 1 /\ degree = 2 /\ NoExtra
    /\ ArgIdx \notin {0, LastIdx}
    /\ ~IsKnot(args.x) /\ RLt(FirstKnot, args.a) /\ RLt(args.a, args.x)
    /\ RLt(Zero, val)
    /\ bspline_fun(args.x, knots, degree, args.idx, FALSE, FALSE) # Zero


(* ------------------------- claims on XSpline --------------------------- *)
Distinct(raw) == Cardinality(Range(raw))
StrictlyIncreasing(q) == \A i \in 1..(Len(q) - 1) : q[i] < q[i + 1]

\* what the specification calls an invalid construction: fewer than two
\* distinct knots, too few intervals for the requested tails, or a degree
\* that is negative or not an integer
InvalidCtor(c) ==
    \/ Distinct(c.knots) < 2
    \/ Distinct(c.knots) - 1 < 1 + int_of(c.l_linear) + int_of(c.r_linear)
    \/ ~c.degree.int
    \/ RLt(c.degree.v, Zero)

\* C6: construction validation.  A constructor call with an invalid input
\* raises and leaves no spline object; a call with a valid input returns an
\* object whose knots are the distinct input knots in strictly increasing
\* order and whose degree is the degree given.
C6_ConstructionValidation ==
    op = "XSpline" =>
        IF InvalidCtor(ctor)
        THEN err # "none" /\ ~spline.built
        ELSE /\ err = "none"
             /\ spline.built
             /\ StrictlyIncreasing(spline.knots)
             /\ Range(spline.knots) = Range(ctor.knots)
             /\ Rat(spline.degree) = ctor.degree.v
             /\ spline.l_linear = ctor.l_linear
             /\ spline.r_linear = ctor.r_linear

\* three distinct knots given unsorted and with a repeat, both tails asked
\* for: two intervals are one too few and the constructor raises
C6_Witness ==
    /\ op = "XSpline"
    /\ err = "AssertionError"
    /\ ~spline.built
    /\ Distinct(ctor.knots) = 3
    /\ Len(ctor.knots) = 4
    /\ ~StrictlyIncreasing(ctor.knots)
    /\ ctor.l_linear /\ ctor.r_linear
    /\ ctor.degree.int /\ RLe(Zero, ctor.degree.v)

\* the tail regions of XSpline.fun: beyond an inner boundary on a side with a
\* linear tail, and inside the outer boundary unless the side is extrapolated
InLeftTail(x) ==
    /\ spline.l_linear
    /\ RLt(x, Rat(spline.inner_lb))
    /\ (RLe(Rat(spline.lb), x) \/ args.l_extra)
InRightTail(x) ==
    /\ spline.r_linear
    /\ RLt(Rat(spline.inner_ub), x)
    /\ (RLe(x, Rat(spline.ub)) \/ args.r_extra)

\* the one-sided first derivative at z of the interior basis, towards the
\* interior (dir = 1 at the left boundary, -1 at the right one), from four
\* points inside the boundary interval: exact for polynomials up to degree 3
TailStep == <<1, 4>>
OneSidedD(z, idx, dir) ==
    LET h == RMul(Rat(dir), TailStep)
        p(i) == bspline_fun(RAdd(z, RMul(Rat(i), h)), spline.inner_knots,
                            spline.degree, idx, FALSE, FALSE)
        p0 == p(0)
        p1 == p(1)
        p2 == p(2)
        p3 == p(3)
    IN  CASE Evaluated(p0, p1) /\ Evaluated(p2, p3) ->
             RDiv(RAdd(RAdd(RMul(Rat(-11), p0), RMul(Rat(18), p1)),
                       RAdd(RMul(Rat(-9), p2), RMul(Rat(2), p3))),
                  RMul(Rat(6), h))

\* the Taylor line through the interior value at the boundary z
TaylorLine(z, dir) ==
    LET f == XSpline_fun(spline, z, args.idx, args.l_extra, args.r_extra)
        d == OneSidedD(z, args.idx, dir)
    IN  CASE Evaluated(f, d) -> RAdd(f, RMul(d, RSub(args.x, z)))

\* C5: linear-tail continuity.  On a tail region XSpline.fun returns
\* f(inner_bound) + f'(inner_bound) * (x - inner_bound), where f(inner_bound)
\* is what XSpline.fun itself returns at the inner boundary and
\* f'(inner_bound) is the one-sided first derivative of the interior basis
\* there.
C5_LinearTailContinuity ==
    op = "xfun" =>
        /\ InLeftTail(args.x) => val = TaylorLine(Rat(spline.inner_lb), 1)
        /\ InRightTail(args.x) => val = TaylorLine(Rat(spline.inner_ub), -1)

\* a point of the left tail where the basis has a slope at the inner
\* boundary, so that the tail value differs from the boundary value
C5_Witness ==
    /\ op = "xfun"
    /\ InLeftTail(args.x)
    /\ spline.degree >= 1
    /\ val # XSpline_fun(spline, Rat(spline.inner_lb), args.idx,
                         args.l_extra, args.r_extra)
    /\ val = TaylorLine(Rat(spline.inner_lb), 1)


(* --------------------- claims on the nested calls ---------------------- *)
\* every frame has a degree of at least 0 and an index valid for its degree
FramesValid ==
    \A j \in 1..Len(stack) :
        /\ stack[j].degree >= 0
        /\ stack[j].idx \in 0..(NumIntervals(knots) + stack[j].degree - 1)

\* a call an evaluator makes to itself lowers the degree by exactly one; the
\* only other call is the hand-over to bspline_fun at order 0, which keeps
\* degree and index
CallsLowerDegree ==
    \A j \in 1..(Len(stack) - 1) :
        \/ /\ stack[j + 1].fn = stack[j].fn
           /\ stack[j + 1].degree = stack[j].degree - 1
        \/ /\ stack[j].fn \in {"dfun", "ifun"}
           /\ stack[j].order = 0
           /\ stack[j + 1].fn = "fun"
           /\ stack[j + 1].degree = stack[j].degree
           /\ stack[j + 1].idx = stack[j].idx

\* the calls nested below the entry call
CallDepth == Len(stack) - 1
Terminates == (op = "eval") ~> (stack = <<>>)

\* C10 as stated: every call terminates, every recursive call lowers the
\* degree by one and carries a valid index, and the call depth never exceeds
\* the degree d of the entry call.
C10_DepthAtMostDegree ==
    /\ [](stack # <<>> => FramesValid /\ CallsLowerDegree /\ CallDepth <= degree)
    /\ Terminates

\* C10: bounded recursion.  Every call of the three evaluators terminates;
\* every call an evaluator makes to itself lowers the degree by exactly one
\* and carries an index valid for that degree; the call depth never exceeds d
\* for bspline_fun and d + 1 for bspline_dfun and bspline_ifun, the extra
\* level being the hand-over to bspline_fun at order 0.
C10_BoundedRecursion ==
    /\ [](stack # <<>> =>
            /\ FramesValid
            /\ CallsLowerDegree
            /\ CallDepth <= degree + 1
            /\ stack[1].fn = "fun" => CallDepth <= degree
            /\ stack[1].degree = degree)
    /\ Terminates

\* a derivative of order >= 1 has reached bspline_fun at degree 0 through
\* its order-0 hand-over: d + 1 calls are nested below the entry call
C10_Witness ==
    /\ op = "eval"
    /\ degree >= 1
    /\ stack[1].fn = "dfun"
    /\ stack[1].order >= 1
    /\ CallDepth = degree + 1
    /\ stack[Len(stack)].fn = "fun"
    /\ stack[Len(stack)].degree = 0


(* ------------------- claims on the facade's indices -------------------- *)
\* C11: facade index range.  For every constructed XSpline, with or without
\* linear tails, num_spline_bases is the number of bases of the inner knot
\* sequence that XSpline.fun and XSpline.domain evaluate over
\* (len(inner_knots) - 1 + degree), and idx = num_spline_bases - 1 names the
\* same basis as idx = -1.
C11_FacadeIndexRange ==
    spline.built =>
        /\ spline.num_spline_bases
              = Len(spline.inner_knots) - 1 + spline.degree
        /\ ResolveIdx(spline.inner_knots, spline.degree, -1)
              = spline.num_spline_bases - 1
        /\ XSpline_domain(spline, spline.num_spline_bases - 1, FALSE, FALSE)
              = XSpline_domain(spline, -1, FALSE, FALSE)

=============================================================================
